---- MODULE Spec2Model ----
(***************************************************************************)
(* Model of src/app.py: the /ask gateway of the text-to-SQL service, with  *)
(* its helpers extract_first_select and safe.  A Python str is modelled as *)
(* a sequence of one-character strings, so that strip, upper, split, the   *)
(* regular expression \bSELECT\b and the substring test "word in up" are   *)
(* computed character by character as the interpreter computes them.       *)
(***************************************************************************)
EXTENDS Integers, Sequences, FiniteSets, TLC

VARIABLES
    \* ---- one /ask request (src/app.py:90-134)
    pc,         \* position of the handler
    body,       \* the "question" value of the request body, before strip
    question,   \* question after strip (line 92)
    raw,        \* res.text of the generator (line 104)
    sql,        \* the local variable sql (lines 110, 114)
    conn,       \* TRUE while the connection of line 120 is open
    mapped,     \* result.mappings().all() (line 122)
    rows,       \* line 123
    columns,    \* line 124
    responses,  \* the responses returned by the handler, in order
    \* ---- history of the request, read only by the properties
    judged,     \* the arguments safe was called with, in order
    verdict,    \* the values safe returned, in order
    executed,   \* the statements handed to conn.execute, in order
    fault,      \* which step failed, "none" when none did
    genCalls,   \* number of generate_content calls
    steps,      \* the pipeline steps completed, in order
    \* ---- a direct call of safe(stmt)
    stmt, stmtSafe, stmtDone,
    \* ---- a direct call of extract_first_select(text)
    text, textOut, textDone

gwVars == <<pc, body, question, raw, sql, conn, mapped, rows, columns,
            responses, judged, verdict, executed, fault, genCalls, steps>>
safeVars == <<stmt, stmtSafe, stmtDone>>
exVars == <<text, textOut, textDone>>
vars == <<gwVars, safeVars, exVars>>

----------------------------------------------------------------------------
(* Bounds of the model *)

\* longest statement handed to safe directly, in fragments
MaxStmtFrags == 3
\* longest text handed to extract_first_select directly, in fragments
MaxTextFrags == 4
\* longest generator output of a request, in fragments
MaxRawFrags == 3
\* most rows a query returns
MaxRows == 2

----------------------------------------------------------------------------
(* Python values *)

\* Python's None: a value that is not a str (no str has a 4-character item)
None == <<"None">>

LowerCase == <<"a", "b", "c", "d", "e", "f", "g", "h", "i", "j", "k", "l", "m",
               "n", "o", "p", "q", "r", "s", "t", "u", "v", "w", "x", "y", "z">>
UpperCase == <<"A", "B", "C", "D", "E", "F", "G", "H", "I", "J", "K", "L", "M",
               "N", "O", "P", "Q", "R", "S", "T", "U", "V", "W", "X", "Y", "Z">>
Digits == <<"0", "1", "2", "3", "4", "5", "6", "7", "8", "9">>

\* the character ` (U+0060), which a TLA+ string literal cannot hold
Backtick == "U+0060"

Range(s) == {s[i] : i \in 1..Len(s)}

\* the characters str.strip() removes
IsSpace(c) == c \in {" ", "\n", "\t"}

\* a character of the class \w
IsWordChar(c) == c \in Range(LowerCase) \cup Range(UpperCase) \cup Range(Digits) \cup {"_"}

UpperChar(c) ==
    IF c \in Range(LowerCase)
    THEN UpperCase[CHOOSE i \in 1..Len(LowerCase) : LowerCase[i] = c]
    ELSE c

\* str.upper()
Upper(s) == [i \in 1..Len(s) |-> UpperChar(s[i])]

RECURSIVE LStrip(_)
LStrip(s) == IF s # <<>> /\ IsSpace(Head(s)) THEN LStrip(Tail(s)) ELSE s

RECURSIVE RStrip(_)
RStrip(s) ==
    IF s # <<>> /\ IsSpace(s[Len(s)]) THEN RStrip(SubSeq(s, 1, Len(s) - 1)) ELSE s

\* str.strip()
Strip(s) == RStrip(LStrip(s))

\* s.startswith(p)
StartsWith(s, p) == Len(s) >= Len(p) /\ SubSeq(s, 1, Len(p)) = p

\* the str test "w in s"
Contains(s, w) == \E i \in 1..(Len(s) - Len(w) + 1) : SubSeq(s, i, i + Len(w) - 1) = w

\* s.split(sep)[0] for a one-character sep
RECURSIVE SplitFirst(_, _)
SplitFirst(s, sep) ==
    IF s = <<>> \/ Head(s) = sep THEN <<>> ELSE <<Head(s)>> \o SplitFirst(Tail(s), sep)

\* s.replace(c, "") for a one-character c
RECURSIVE Remove(_, _)
Remove(s, c) ==
    IF s = <<>> THEN <<>>
    ELSE IF Head(s) = c THEN Remove(Tail(s), c)
    ELSE <<Head(s)>> \o Remove(Tail(s), c)

----------------------------------------------------------------------------
(* extract_first_select, src/app.py:26-36 *)

SELECT == <<"S", "E", "L", "E", "C", "T">>

\* the pattern compiled without re.IGNORECASE
SelectReMatchNoCase(txt, i) ==
    /\ i >= 1
    /\ i + Len(SELECT) - 1 <= Len(txt)
    /\ SubSeq(txt, i, i + Len(SELECT) - 1) = SELECT
    /\ (i = 1 \/ ~IsWordChar(txt[i - 1]))
    /\ (i + Len(SELECT) > Len(txt) \/ ~IsWordChar(txt[i + Len(SELECT)]))

\* the pattern of SELECT_RE matches txt at position i: the six letters in
\* either case, a \b before them and a \b after them
SELECT_RE_match(txt, i) ==
    /\ i >= 1
    /\ i + Len(SELECT) - 1 <= Len(txt)
    /\ Upper(SubSeq(txt, i, i + Len(SELECT) - 1)) = SELECT
    /\ (i = 1 \/ ~IsWordChar(txt[i - 1]))
    /\ (i + Len(SELECT) > Len(txt) \/ ~IsWordChar(txt[i + Len(SELECT)]))

\* SELECT_RE.search(txt): the start of the leftmost match, 0 for no match
SELECT_RE_search(txt) ==
    IF \E i \in 1..Len(txt) : SELECT_RE_match(txt, i)
    THEN CHOOSE i \in 1..Len(txt) :
            /\ SELECT_RE_match(txt, i)
            /\ \A j \in 1..(i - 1) : ~SELECT_RE_match(txt, j)
    ELSE 0

extract_first_select(t) ==
    IF t = None \/ t = <<>> THEN None
    ELSE LET txt == Strip(t)
             m == SELECT_RE_search(txt)
         IN  IF m = 0 THEN None
             ELSE Strip(SplitFirst(SubSeq(txt, m, Len(txt)), ";"))

----------------------------------------------------------------------------
(* safe, src/app.py:38-48 *)

forbidden == {
    <<"I", "N", "S", "E", "R", "T">>, <<"U", "P", "D", "A", "T", "E">>,
    <<"D", "E", "L", "E", "T", "E">>, <<"D", "R", "O", "P">>,
    <<"A", "L", "T", "E", "R">>, <<"T", "R", "U", "N", "C", "A", "T", "E">>,
    <<"C", "R", "E", "A", "T", "E">>, <<"R", "E", "P", "L", "A", "C", "E">>,
    <<"R", "E", "N", "A", "M", "E">>, <<"M", "E", "R", "G", "E">>,
    <<"C", "A", "L", "L">>, <<"G", "R", "A", "N", "T">>,
    <<"R", "E", "V", "O", "K", "E">>, <<"D", "E", "S", "C", "R", "I", "B", "E">>,
    <<"S", "H", "O", "W">>, <<"S", "E", "T">>, <<"U", "S", "E">> }

\* safe with the denylist scanned on sql instead of sql.upper()
safeCaseSensitive(s) ==
    IF s = None \/ s = <<>> \/ ~StartsWith(Upper(s), SELECT) THEN FALSE
    ELSE ~(\E word \in forbidden : Contains(s, word))

safe(s) ==
    IF s = None \/ s = <<>> \/ ~StartsWith(Upper(s), SELECT) THEN FALSE
    ELSE LET up == Upper(s)
         IN  ~(\E word \in forbidden : Contains(up, word))

----------------------------------------------------------------------------
(* Inputs: texts built from fragments, then read character by character *)

RECURSIVE Flatten(_)
Flatten(fs) == IF fs = <<>> THEN <<>> ELSE Head(fs) \o Flatten(Tail(fs))

FragSeqs(frags, n) == UNION {[1..k -> frags] : k \in 0..n}

StmtFrags == {
    SELECT, <<"s", "e", "l", "e", "c", "t">>, <<" ">>, <<"x">>, <<"_">>,
    <<"u", "s", "e", "r", "s">>, <<"s", "e", "t">>, <<"S", "h", "o", "w">>,
    <<"D", "R", "O", "P">>, <<"1">> }

ScenarioStmts == {
    <<"S", "E", "L", "E", "C", "T", " ", "i", "d", ",", " ", "n", "a", "m", "e",
      " ", "F", "R", "O", "M", " ", "u", "s", "e", "r", "s">>,
    <<"S", "E", "L", "E", "C", "T", " ", "S", "H", "O", "W", " ", "F", "R", "O",
      "M", " ", "t">>,
    <<"S", "E", "L", "E", "C", "T", " ", "1">>,
    <<"S", "E", "L", "E", "C", "T", " ", "*", " ", "F", "R", "O", "M", " ", "u",
      "s", "e", "r", "s">> }

StmtInputs ==
    {None} \cup ScenarioStmts
        \cup {Flatten(fs) : fs \in FragSeqs(StmtFrags, MaxStmtFrags)}

TextFrags == {
    SELECT, <<"s", "e", "L", "e", "c", "t">>, <<" ">>, <<";">>, <<"x">>,
    <<"_">>, <<"\n">>, <<"1">> }

ScenarioTexts == {
    <<"S", "u", "r", "e", "!", " ", "S", "E", "L", "E", "C", "T", " ", "i", "d",
      ",", " ", "n", "a", "m", "e", " ", "F", "R", "O", "M", " ", "u", "s", "e",
      "r", "s", ";">>,
    <<"D", "R", "O", "P", " ", "T", "A", "B", "L", "E", " ", "u", "s", "e", "r",
      "s", ";", " ", "S", "E", "L", "E", "C", "T", " ", "1", ";">>,
    <<"U", "N", "A", "B", "L", "E", "_", "T", "O", "_", "A", "N", "S", "W", "E",
      "R">>,
    <<"S", "E", "L", "E", "C", "T", " ", "*", " ", "F", "R", "O", "M", " ", "u",
      "s", "e", "r", "s", ";", " ", "D", "E", "L", "E", "T", "E", " ", "F", "R",
      "O", "M", " ", "u", "s", "e", "r", "s", ";">> }

TextInputs ==
    {None} \cup ScenarioTexts
        \cup {Flatten(fs) : fs \in FragSeqs(TextFrags, MaxTextFrags)}

----------------------------------------------------------------------------
(* The request before the handler runs; a direct call before it is made *)

GwIdle ==
    /\ pc = "Start"
    /\ body = <<>>
    /\ question = <<>>
    /\ raw = None
    /\ sql = None
    /\ conn = FALSE
    /\ mapped = <<>>
    /\ rows = <<>>
    /\ columns = <<>>
    /\ responses = <<>>
    /\ judged = <<>>
    /\ verdict = <<>>
    /\ executed = <<>>
    /\ fault = "none"
    /\ genCalls = 0
    /\ steps = <<>>

SafeIdle == stmt = None /\ stmtSafe = FALSE /\ stmtDone = FALSE

ExIdle == text = None /\ textOut = None /\ textDone = FALSE

----------------------------------------------------------------------------
(* A direct call of safe *)

InitSafe ==
    /\ GwIdle /\ ExIdle
    /\ stmt \in StmtInputs
    /\ stmtSafe = FALSE
    /\ stmtDone = FALSE

CallSafe ==
    /\ ~stmtDone
    /\ stmtSafe' = safe(stmt)
    /\ stmtDone' = TRUE
    /\ UNCHANGED <<stmt, gwVars, exVars>>

NextSafe == CallSafe

SpecSafe == InitSafe /\ [][NextSafe]_vars

----------------------------------------------------------------------------
(* A direct call of extract_first_select *)

InitExtract ==
    /\ GwIdle /\ SafeIdle
    /\ text \in TextInputs
    /\ textOut = None
    /\ textDone = FALSE

CallExtract ==
    /\ ~textDone
    /\ textOut' = extract_first_select(text)
    /\ textDone' = TRUE
    /\ UNCHANGED <<text, gwVars, safeVars>>

NextExtract == CallExtract

SpecExtract == InitExtract /\ [][NextExtract]_vars

----------------------------------------------------------------------------
(* The /ask handler, src/app.py:90-134 *)

\* question values of the request body; a body without the key reads as ""
Bodies == { <<>>, <<" ", "\n">>, <<" ", "q", " ">> }

RawFrags == {
    <<"S", "E", "L", "E", "C", "T", " ", "1">>, <<"s", "e", "l", "e", "c", "t">>,
    <<" ">>, <<";">>, <<Backtick>>, <<"\"">>, <<"u", "s", "e", "r", "s">> }

\* res.text: a str, or None for a reply without text
RawInputs ==
    {None} \cup ScenarioTexts
        \cup {Flatten(fs) : fs \in FragSeqs(RawFrags, MaxRawFrags)}

\* what the database returns for a query: rows over one column list, each
\* row an ordered mapping, written as its (key, value) pairs in key order
ColumnLists == { <<"id">>, <<"name", "id">> }
CellValues == {"a", "b"}
ResultSets ==
    UNION { { [i \in 1..n |-> [k \in 1..Len(cols) |-> <<cols[k], cells[i][k]>>]] :
                cells \in [1..n -> [1..Len(cols) -> CellValues]] } :
            n \in 0..MaxRows, cols \in ColumnLists }

\* list(r.keys()) of a row mapping
KeysOf(r) == [k \in 1..Len(r) |-> r[k][1]]

\* dict(r) of a row mapping
DictOf(r) ==
    [key \in Range(KeysOf(r)) |-> r[CHOOSE k \in 1..Len(r) : r[k][1] = key][2]]

\* line 123 keeping only the first row
rowsOfFirstOnly(m) == [i \in 1..(IF m = <<>> THEN 0 ELSE 1) |-> DictOf(m[i])]

\* line 123
rowsOf(m) == [i \in 1..Len(m) |-> DictOf(m[i])]

\* line 124
columnsOf(m) == IF m # <<>> THEN KeysOf(m[1]) ELSE <<>>

\* line 114 without its final strip
cleanNoStrip(s) == Remove(Remove(s, Backtick), "\"")

\* line 114
clean(s) == Strip(Remove(Remove(s, Backtick), "\""))

\* line 116 with the test dropped
rejectsNothing(s) == FALSE

\* the test of line 116
rejects(s) == ~safe(s)

\* a connection closed by hand after line 124 only
closeOnSuccessOnly(held, raised) == held /\ raised

\* the connection after the with block of line 120 is left, normally or by
\* an exception
withExit(held, raised) == FALSE

\* the responses of lines 94, 106, 112, 117, 126 and 128
RespQuestionRequired == [status |-> 400, json |-> [error |-> "Question is required."]]

RespLLMError(e) == [status |-> 500, json |-> [error |-> "LLM error", details |-> e]]

RespNoSQL == [status |-> 400, json |-> [error |-> "No valid SQL found"]]

RespUnsafe(s) == [status |-> 400, json |-> [sql |-> s, error |-> "Unsafe SQL"]]

\* line 126 with the statement left out
RespSQLErrorNoSql(s, e) == [status |-> 200, json |-> [error |-> "SQL error", details |-> e]]

RespSQLError(s, e) ==
    [status |-> 200, json |-> [sql |-> s, error |-> "SQL error", details |-> e]]

RespResult(s, cols, rws) ==
    [status |-> 200, json |-> [sql |-> s, result |-> [columns |-> cols, rows |-> rws]]]

Init ==
    /\ SafeIdle /\ ExIdle
    /\ pc = "Start"
    /\ body \in Bodies
    /\ question = <<>>
    /\ raw = None
    /\ sql = None
    /\ conn = FALSE
    /\ mapped = <<>>
    /\ rows = <<>>
    /\ columns = <<>>
    /\ responses = <<>>
    /\ judged = <<>>
    /\ verdict = <<>>
    /\ executed = <<>>
    /\ fault = "none"
    /\ genCalls = 0
    /\ steps = <<>>

\* the handler returns response r
Respond(r, why) ==
    /\ responses' = Append(responses, r)
    /\ fault' = why
    /\ pc' = "Responded"

\* lines 92-94
Receive ==
    /\ pc = "Start"
    /\ question' = Strip(body)
    /\ IF question' = <<>>
       THEN /\ Respond(RespQuestionRequired, "empty")
            /\ steps' = steps \o <<"ReceivedQuestion", "Responded">>
       ELSE /\ pc' = "BuildPrompt"
            /\ steps' = Append(steps, "ReceivedQuestion")
            /\ UNCHANGED <<responses, fault>>
    /\ UNCHANGED <<body, raw, sql, conn, mapped, rows, columns, judged, verdict,
                   executed, genCalls, safeVars, exVars>>

\* line 96: get_schema (lines 50-57) returns and build_prompt formats, or
\* get_schema raises and nothing in ask catches it
BuildPrompt ==
    /\ pc = "BuildPrompt"
    /\ \/ /\ pc' = "Generate"
          /\ steps' = Append(steps, "PromptBuilt")
          /\ UNCHANGED fault
       \/ /\ pc' = "Raised"
          /\ fault' = "schema"
          /\ UNCHANGED steps
    /\ UNCHANGED <<body, question, raw, sql, conn, mapped, rows, columns, responses,
                   judged, verdict, executed, genCalls, safeVars, exVars>>

\* lines 99-106
Generate ==
    /\ pc = "Generate"
    /\ genCalls' = genCalls + 1
    /\ \/ /\ raw' \in RawInputs
          /\ pc' = "Extract"
          /\ steps' = Append(steps, "GeneratorInvoked")
          /\ UNCHANGED <<responses, fault>>
       \/ /\ Respond(RespLLMError("exc"), "generator")
          /\ steps' = steps \o <<"GeneratorInvoked", "Responded">>
          /\ UNCHANGED raw
    /\ UNCHANGED <<body, question, sql, conn, mapped, rows, columns, judged,
                   verdict, executed, safeVars, exVars>>

\* lines 110-114
Extract ==
    /\ pc = "Extract"
    /\ LET found == extract_first_select(raw)
       IN  IF found = None \/ found = <<>>
           THEN /\ sql' = found
                /\ Respond(RespNoSQL, "extraction")
                /\ steps' = steps \o <<"Extracted", "Responded">>
           ELSE /\ sql' = clean(found)
                /\ pc' = "Validate"
                /\ steps' = Append(steps, "Extracted")
                /\ UNCHANGED <<responses, fault>>
    /\ UNCHANGED <<body, question, raw, conn, mapped, rows, columns, judged,
                   verdict, executed, genCalls, safeVars, exVars>>

\* lines 116-117
Validate ==
    /\ pc = "Validate"
    /\ judged' = Append(judged, sql)
    /\ verdict' = Append(verdict, safe(sql))
    /\ IF rejects(sql)
       THEN /\ Respond(RespUnsafe(sql), "unsafe")
            /\ steps' = steps \o <<"Validated", "Responded">>
       ELSE /\ pc' = "Connect"
            /\ steps' = Append(steps, "Validated")
            /\ UNCHANGED <<responses, fault>>
    /\ UNCHANGED <<body, question, raw, sql, conn, mapped, rows, columns,
                   executed, genCalls, safeVars, exVars>>

\* line 120: engine.connect() yields a connection, or raises into line 125
Connect ==
    /\ pc = "Connect"
    /\ \/ /\ conn' = TRUE
          /\ pc' = "Execute"
          /\ UNCHANGED <<responses, fault, steps>>
       \/ /\ conn' = conn
          /\ Respond(RespSQLError(sql, "exc"), "execution")
          /\ steps' = steps \o <<"Executed", "Responded">>
    /\ UNCHANGED <<body, question, raw, sql, mapped, rows, columns, judged,
                   verdict, executed, genCalls, safeVars, exVars>>

\* lines 121-134: the query runs and its rows are shaped, or it raises into
\* line 125; either way the with block is left before the handler returns
Execute ==
    /\ pc = "Execute"
    /\ executed' = Append(executed, sql)
    /\ steps' = steps \o <<"Executed", "Responded">>
    /\ \/ /\ mapped' \in ResultSets
          /\ rows' = rowsOf(mapped')
          /\ columns' = columnsOf(mapped')
          /\ conn' = withExit(conn, FALSE)
          /\ Respond(RespResult(sql, columns', rows'), "none")
       \/ /\ conn' = withExit(conn, TRUE)
          /\ Respond(RespSQLError(sql, "exc"), "execution")
          /\ UNCHANGED <<mapped, rows, columns>>
    /\ UNCHANGED <<body, question, raw, sql, judged, verdict, genCalls,
                   safeVars, exVars>>

Next ==
    \/ Receive
    \/ BuildPrompt
    \/ Generate
    \/ Extract
    \/ Validate
    \/ Connect
    \/ Execute

Spec == Init /\ [][Next]_vars

----------------------------------------------------------------------------
(* Vocabulary of the properties, defined apart from the code's operators *)

SameLetter(c, d) ==
    c = d \/ \E i \in 1..Len(LowerCase) : {c, d} = {LowerCase[i], UpperCase[i]}

\* s starts with the letters of w, in any letter case
StartsNoCase(s, w) ==
    Len(s) >= Len(w) /\ \A i \in 1..Len(w) : SameLetter(s[i], w[i])

\* w occurs in s at position i as a whole word, in any letter case
WordAt(s, w, i) ==
    /\ i + Len(w) - 1 <= Len(s)
    /\ \A k \in 1..Len(w) : SameLetter(s[i + k - 1], w[k])
    /\ (i > 1 => ~IsWordChar(s[i - 1]))
    /\ (i + Len(w) <= Len(s) => ~IsWordChar(s[i + Len(w)]))

HasWord(s, w) == \E i \in 1..Len(s) : WordAt(s, w, i)

HasDenylistedWord(s) == \E w \in forbidden : HasWord(s, w)

Blank(s) == \A i \in 1..Len(s) : IsSpace(s[i])

\* s without its leading and trailing whitespace
Trimmed(s) ==
    IF Blank(s) THEN <<>>
    ELSE LET inked == {i \in 1..Len(s) : ~IsSpace(s[i])}
             lo == CHOOSE i \in inked : \A j \in inked : i <= j
             hi == CHOOSE i \in inked : \A j \in inked : i >= j
         IN  SubSeq(s, lo, hi)

\* position of the first whole-word SELECT of s
FirstKeyword(s) ==
    CHOOSE i \in 1..Len(s) :
        WordAt(s, SELECT, i) /\ \A j \in 1..(i - 1) : ~WordAt(s, SELECT, j)

\* position of the first ';' of s at or after p, Len(s) + 1 when there is none
FirstTerminator(s, p) ==
    IF \E j \in p..Len(s) : s[j] = ";"
    THEN CHOOSE j \in p..Len(s) : s[j] = ";" /\ \A k \in p..(j - 1) : s[k] # ";"
    ELSE Len(s) + 1

----------------------------------------------------------------------------
(* Properties of safe *)

\* C2: every statement that starts with SELECT (in any letter case) and in
\* which no denylisted keyword occurs as a whole word is accepted by safe.
C2_CleanSelectAccepted ==
    (stmtDone /\ stmt # None /\ StartsNoCase(stmt, SELECT) /\ ~HasDenylistedWord(stmt))
        => stmtSafe = TRUE

\* C3: safe returns false for None and for the empty statement, for every
\* statement that does not start with SELECT (in any letter case), and for
\* every statement that starts with SELECT and holds a denylisted keyword as
\* a whole word in any letter case.
C3_Rejects ==
    stmtDone =>
        /\ (stmt = None \/ stmt = <<>>) => stmtSafe = FALSE
        /\ (stmt # None /\ ~StartsNoCase(stmt, SELECT)) => stmtSafe = FALSE
        /\ (stmt # None /\ StartsNoCase(stmt, SELECT) /\ HasDenylistedWord(stmt))
                => stmtSafe = FALSE

\* a statement that starts with SELECT and holds the whole word "set" in
\* lower case has been judged
C3_Witness ==
    /\ stmtDone
    /\ stmt # None
    /\ StartsNoCase(stmt, SELECT)
    /\ HasWord(stmt, <<"S", "E", "T">>)
    /\ ~Contains(stmt, <<"S", "E", "T">>)
    /\ stmtSafe = FALSE

----------------------------------------------------------------------------
(* Properties of extract_first_select *)

\* C4: extract_first_select returns None for None, for the empty and the
\* whitespace-only text and for a text without the keyword SELECT; for every
\* other text it returns the text from the first SELECT (in any letter case)
\* up to the first ';' after it, or up to the end, trimmed; the result holds
\* no ';'.
C4_Extract ==
    textDone =>
        IF text = None \/ Blank(text) \/ ~HasWord(text, SELECT)
        THEN textOut = None
        ELSE LET p == FirstKeyword(text)
                 q == FirstTerminator(text, p)
             IN  /\ textOut = Trimmed(SubSeq(text, p, q - 1))
                 /\ ";" \notin Range(textOut)

\* a text with something before its first SELECT and something after the
\* first ';' that follows it has been extracted from
C4_Witness ==
    /\ textDone
    /\ text # None
    /\ HasWord(text, SELECT)
    /\ FirstKeyword(text) > 1
    /\ FirstTerminator(text, FirstKeyword(text)) < Len(text)
    /\ textOut # None

----------------------------------------------------------------------------
(* Properties of the /ask handler *)

Terminated == pc \in {"Responded", "Raised"}

JsonKeys(r) == DOMAIN r.json

StepOrder ==
    <<"ReceivedQuestion", "PromptBuilt", "GeneratorInvoked", "Extracted",
      "Validated", "Executed", "Responded">>

StepRank(name) == CHOOSE i \in 1..Len(StepOrder) : StepOrder[i] = name

\* C1: the statement handed to conn.execute is one safe was called with and
\* returned true for, in this request; after an empty question, a generator
\* failure, a failed extraction or a rejection nothing was executed and no
\* connection was opened.
C1_ExecuteOnlyAccepted ==
    /\ \A i \in 1..Len(executed) :
           \E j \in 1..Len(judged) : judged[j] = executed[i] /\ verdict[j] = TRUE
    /\ conn => (judged = <<sql>> /\ verdict = <<TRUE>>)
    /\ fault \in {"empty", "generator", "extraction", "unsafe"}
           => (executed = <<>> /\ ~conn)

\* a statement safe accepted was handed to conn.execute and the request answered
C1_Witness ==
    /\ pc = "Responded"
    /\ executed = <<sql>>
    /\ verdict = <<TRUE>>

\* C5: when a step fails the request is in Responded with a response that
\* carries an error; no exception leaves the handler.
C5_EveryFailureResponds ==
    /\ pc # "Raised"
    /\ fault # "none" =>
           /\ pc = "Responded"
           /\ Len(responses) = 1
           /\ "error" \in JsonKeys(responses[1])

\* C6: a response with a result carries sql and no error and follows a
\* successful execution; a response for an empty question, a generator
\* failure or a failed extraction carries error and neither sql nor result;
\* a response for a rejection or an execution failure carries error and the
\* statement as sql, and no result.
C6_ResponseShapes ==
    \A i \in 1..Len(responses) :
        LET r == responses[i]
            keys == JsonKeys(r)
        IN  /\ ~("result" \in keys /\ "error" \in keys)
            /\ "result" \in keys =>
                   /\ keys = {"sql", "result"}
                   /\ DOMAIN r.json.result = {"columns", "rows"}
                   /\ fault = "none"
                   /\ executed = <<r.json.sql>>
            /\ fault = "none" => keys = {"sql", "result"}
            /\ fault \in {"empty", "generator", "extraction"} =>
                   /\ "error" \in keys
                   /\ "sql" \notin keys
                   /\ "result" \notin keys
            /\ fault \in {"unsafe", "execution"} =>
                   /\ "error" \in keys
                   /\ "sql" \in keys
                   /\ "result" \notin keys
                   /\ r.json.sql = sql

\* the query of an accepted statement failed and the request was answered
C6_Witness ==
    /\ pc = "Responded"
    /\ fault = "execution"
    /\ executed = <<sql>>
    /\ Len(responses) = 1

\* C7: the steps run in the order ReceivedQuestion, PromptBuilt,
\* GeneratorInvoked, Extracted, Validated, Executed, Responded without
\* repetition, a request that has ended has responded exactly once, there is
\* at most one generator call and one database call, and an empty question
\* is answered before any of them.
C7_LinearPipeline ==
    /\ \A i, j \in 1..Len(steps) : i < j => StepRank(steps[i]) < StepRank(steps[j])
    /\ genCalls <= 1
    /\ Len(executed) <= 1
    /\ Len(responses) <= 1
    /\ Terminated => (Len(responses) = 1 /\ steps[Len(steps)] = "Responded")
    /\ (pc # "Start" /\ Blank(body)) =>
           /\ responses = <<RespQuestionRequired>>
           /\ genCalls = 0
           /\ executed = <<>>

\* C8: a connection is open only for a statement safe accepted, and none is
\* open once the request has been answered, after a successful and after a
\* failed execution alike.
C8_ConnectionScoped ==
    /\ conn => (judged = <<sql>> /\ verdict = <<TRUE>> /\ safe(sql))
    /\ pc = "Responded" => ~conn

\* a connection was opened, the query failed, and the request was answered
C8_Witness ==
    /\ pc = "Responded"
    /\ fault = "execution"
    /\ executed # <<>>
    /\ ~conn

\* C9: after a successful execution the result's rows are the returned rows
\* in the returned order, each as a column-to-value mapping; columns is the
\* key order of the first row and is empty exactly when no row was returned;
\* every row has exactly the columns listed.
C9_ResultShape ==
    (pc = "Responded" /\ fault = "none") =>
        LET res == responses[1].json.result
        IN  /\ Len(res.rows) = Len(mapped)
            /\ \A i \in 1..Len(mapped) :
                   /\ DOMAIN res.rows[i] = {mapped[i][k][1] : k \in 1..Len(mapped[i])}
                   /\ \A k \in 1..Len(mapped[i]) :
                          res.rows[i][mapped[i][k][1]] = mapped[i][k][2]
            /\ mapped # <<>> =>
                   res.columns = [k \in 1..Len(mapped[1]) |-> mapped[1][k][1]]
            /\ (res.columns = <<>>) <=> (mapped = <<>>)
            /\ \A i \in 1..Len(res.rows) : DOMAIN res.rows[i] = Range(res.columns)

\* two different rows over two columns were returned and answered
C9_Witness ==
    /\ pc = "Responded"
    /\ fault = "none"
    /\ Len(mapped) = 2
    /\ mapped[1] # mapped[2]
    /\ Len(mapped[1]) = 2

\* C10: the text safe judges, the text handed to conn.execute and the sql of
\* the response are the same text; it is trimmed, starts with SELECT in some
\* letter case and holds no ';', backtick or double quote.
C10_OneStatement ==
    /\ judged # <<>> =>
           /\ judged = <<sql>>
           /\ sql = Trimmed(sql)
           /\ StartsNoCase(sql, SELECT)
           /\ Range(sql) \cap {";", Backtick, "\""} = {}
    /\ executed # <<>> => executed = judged
    /\ \A i \in 1..Len(responses) :
           "sql" \in JsonKeys(responses[i]) => <<responses[i].json.sql>> = judged

\* a statement whose extracted text ended in a backtick after a space was
\* judged, executed and reported
C10_Witness ==
    /\ pc = "Responded"
    /\ fault = "none"
    /\ executed = <<sql>>
    /\ raw # None
    /\ Len(raw) >= 2
    /\ raw[Len(raw)] = Backtick
    /\ IsSpace(raw[Len(raw) - 1])

====
